---- MODULE Spec2Model ----
(***************************************************************************)
(* Karakeep unarchived-bookmark counter (content script).                  *)
(*                                                                         *)
(* The module models the KarakeepBookmarkCounter class: the two page       *)
(* counters (countVisibleBookmarks, countBookmarksInDocument), the sidebar *)
(* scan (findAllListLinks), the cooldown-gated entry point                 *)
(* (updateAllListCounts), the per-list resolution (updateListCount,        *)
(* getUnarchivedCountForList, fetchListBookmarkCount) and the triggers     *)
(* (startup timers, load / DOMContentLoaded, the MutationObserver, the     *)
(* runtime message).                                                       *)
(*                                                                         *)
(* Strings are sequences of one-character strings, so that trim,           *)
(* toLowerCase, includes, parseInt and toString are computed rather than   *)
(* assumed.  Time is in milliseconds.                                      *)
(***************************************************************************)
EXTENDS Integers, Sequences, FiniteSets

VARIABLES
    now,             \* Date.now(), ms
    lastUpdateTime,  \* this.lastUpdateTime
    lastAbort,       \* when a call last returned because the page was not ready, or 0
    readyState,      \* document.readyState
    timers,          \* pending setTimeout callbacks that call updateAllListCounts
    currentUrl,      \* the observer's closure variable currentUrl
    location,        \* window.location (path segments)
    aside,           \* TRUE iff document.querySelector('aside') finds an element
    items,           \* the list links of the sidebar, in document order
    doc,             \* the live document (main region and its cards)
    runs,            \* every run that passed the readiness checks, oldest first
    task,            \* what the task that has just run did (its log)
    events,          \* external events so far: page lifecycle, host page, messages
    liveResult,      \* last value returned by countVisibleBookmarks()
    docResult        \* last value returned by countBookmarksInDocument(doc)

vars == <<now, lastUpdateTime, lastAbort, readyState, timers, currentUrl, location, aside,
          items, doc, runs, task, events, liveResult,
          docResult>>

----------------------------------------------------------------------------
(* Bounds of the model *)

\* number of clock steps of TickMs the model follows
MaxTicks == 22

\* most external events (page lifecycle events, mutations by the host page,
\* runtime messages) in one behaviour
MaxEvents == 1

\* most cards in a document handed to the page counters
MaxCards == 2

----------------------------------------------------------------------------
(* Program constants *)

updateCooldown == 10000
fetchTimeout == 5000
startupDelayShort == 1000
startupDelayLong == 3000
loadDelay == 500
observerDelay == 1000
minTextLength == 10
maxTextLength == 200

\* granularity of the clock: the greatest common divisor of the delays above
TickMs == loadDelay

\* the step of the clock while nothing is pending
IdleMs == fetchTimeout

\* Date.now() when the content script is constructed: far above the cooldown,
\* as any real epoch time is
Epoch == 100 * updateCooldown

\* Values that are not counts.  Counts are naturals, so the negative numbers
\* stand for: null, NaN, a thrown exception, a value not produced yet.
Null == 0 - 1
NaN == 0 - 2
Thrown == 0 - 3
Undefined == 0 - 4

\* Values that are not texts (a text is a sequence of single characters)
NoBadge == <<"no badge element">>
NoWrite == <<"no write">>

\* split(...)[1] of a path without "/lists/": undefined (a list id is a
\* non-empty sequence of segments)
NoListId == <<>>

----------------------------------------------------------------------------
(* Strings *)

\* the text of n copies of the character c
Rep(c, n) == [i \in 1..n |-> c]

IsSpace(c) == c = " "

RECURSIVE TrimLeft(_)
TrimLeft(s) ==
    IF s = <<>> THEN s
    ELSE IF IsSpace(Head(s)) THEN TrimLeft(Tail(s)) ELSE s

RECURSIVE TrimRight(_)
TrimRight(s) ==
    IF s = <<>> THEN s
    ELSE IF IsSpace(s[Len(s)]) THEN TrimRight(SubSeq(s, 1, Len(s) - 1)) ELSE s

\* String.prototype.trim
Trim(s) == TrimRight(TrimLeft(s))

LowerOf(c) ==
    CASE c = "A" -> "a" [] c = "R" -> "r" [] c = "C" -> "c" [] c = "H" -> "h"
      [] c = "I" -> "i" [] c = "V" -> "v" [] c = "E" -> "e" [] c = "D" -> "d"
      [] c = "X" -> "x"
      [] OTHER -> c

\* a comparison that forgets to lower the case
ToLowerCaseForgotten(s) == s

\* String.prototype.toLowerCase
ToLowerCase(s) == [i \in 1..Len(s) |-> LowerOf(s[i])]

\* String.prototype.includes
Includes(s, pat) ==
    \E i \in 0..(Len(s) - Len(pat)) : SubSeq(s, i + 1, i + Len(pat)) = pat

archivedWord == <<"a", "r", "c", "h", "i", "v", "e", "d">>

Digits == <<"0", "1", "2", "3", "4", "5", "6", "7", "8", "9">>

IsDigit(c) == \E d \in 1..10 : Digits[d] = c

DigitValue(c) == (CHOOSE d \in 1..10 : Digits[d] = c) - 1

RECURSIVE DigitPrefix(_)
DigitPrefix(s) ==
    IF s = <<>> \/ ~IsDigit(Head(s)) THEN <<>>
    ELSE <<Head(s)>> \o DigitPrefix(Tail(s))

RECURSIVE DigitsValue(_)
DigitsValue(s) ==
    IF s = <<>> THEN 0
    ELSE 10 * DigitsValue(SubSeq(s, 1, Len(s) - 1)) + DigitValue(s[Len(s)])

\* parseInt(text): the value of the leading decimal digits, NaN when there
\* is none
ParseInt(s) ==
    LET p == DigitPrefix(TrimLeft(s))
    IN  IF p = <<>> THEN NaN ELSE DigitsValue(p)

\* parseInt(countBadge.textContent.trim()) || 0
ParseCount(s) ==
    LET v == ParseInt(Trim(s))
    IN  IF v = NaN \/ v = 0 THEN 0 ELSE v

RECURSIVE ToString(_)
\* Number.prototype.toString for a count
ToString(n) ==
    IF n < 10 THEN <<Digits[n + 1]>>
    ELSE ToString(n \div 10) \o <<Digits[(n % 10) + 1]>>

----------------------------------------------------------------------------
(* Bookmark cards and the two page counters *)

\* A document is [main |-> BOOLEAN, cards |-> sequence of cards]: whether
\* querySelector('main') finds an element, and the elements matching the
\* card selector inside it.  A card is
\*   [text, link, cls, attr, opacity, display]: its textContent, whether it
\*   holds an a[href^="http"], its className, whether it has the attribute
\*   data-archived, its computed opacity in hundredths and its computed
\*   display.

\* the length test with inclusive limits
IsCandidateInclusive(card) ==
    LET text == Trim(card.text)
    IN  /\ card.link
        /\ Len(text) >= minTextLength
        /\ Len(text) <= maxTextLength

\* the test of line 277 / 313
IsCandidate(card) ==
    LET text == Trim(card.text)
    IN  /\ card.link
        /\ Len(text) > minTextLength
        /\ Len(text) < maxTextLength

\* isArchived of lines 282-284 (a document that is not rendered)
IsArchivedInDocument(card) ==
    LET textLower == ToLowerCase(Trim(card.text))
        classLower == ToLowerCase(card.cls)
    IN  \/ Includes(textLower, archivedWord)
        \/ Includes(classLower, archivedWord)
        \/ card.attr

\* the live test with the class name left out
IsArchivedVisibleNoClass(card) ==
    LET textLower == ToLowerCase(Trim(card.text))
    IN  \/ Includes(textLower, archivedWord)
        \/ card.opacity < 100
        \/ card.display = "none"
        \/ card.attr

\* isArchived of lines 318-322 (the live page, with computed style)
IsArchivedVisible(card) ==
    LET textLower == ToLowerCase(Trim(card.text))
        classLower == ToLowerCase(card.cls)
    IN  \/ Includes(textLower, archivedWord)
        \/ Includes(classLower, archivedWord)
        \/ card.opacity < 100
        \/ card.display = "none"
        \/ card.attr

\* what one card adds to validBookmarks in countBookmarksInDocument
DocumentCardCount(card) ==
    IF IsCandidate(card) /\ ~IsArchivedInDocument(card) THEN 1 ELSE 0

\* what one card adds to validBookmarks in countVisibleBookmarks
VisibleCardCount(card) ==
    IF IsCandidate(card) /\ ~IsArchivedVisible(card) THEN 1 ELSE 0

RECURSIVE SumDocument(_)
SumDocument(cards) ==
    IF cards = <<>> THEN 0
    ELSE DocumentCardCount(Head(cards)) + SumDocument(Tail(cards))

RECURSIVE SumVisible(_)
SumVisible(cards) ==
    IF cards = <<>> THEN 0
    ELSE VisibleCardCount(Head(cards)) + SumVisible(Tail(cards))

countBookmarksInDocument(d) ==
    IF ~d.main THEN 0 ELSE SumDocument(d.cards)

\* the live counter with the detached counter's answer to a missing main
countVisibleBookmarksZero(d) ==
    IF ~d.main THEN 0 ELSE SumVisible(d.cards)

countVisibleBookmarks(d) ==
    IF ~d.main THEN Null ELSE SumVisible(d.cards)

----------------------------------------------------------------------------
(* Documents the counters are applied to *)

Str11 == Rep("x", minTextLength + 1)

Card(text, link, cls, attr, opacity, display) ==
    [text |-> text, link |-> link, cls |-> cls, attr |-> attr,
     opacity |-> opacity, display |-> display]

PlainCard(text, link) == Card(text, link, <<>>, FALSE, 100, "block")

\* card texts around the two length limits, with and without the word
\* "archived" in several letter cases, with and without outer white space
CardTexts ==
    { Rep("x", minTextLength),
      Str11,
      <<" ", " ">> \o Rep("x", minTextLength) \o <<" ">>,
      <<" ">> \o Str11 \o <<" ">>,
      Rep("x", maxTextLength - 1),
      Rep("x", maxTextLength),
      <<"A", "r", "c", "h", "i", "v", "e", "d">> \o Rep("x", 3),
      Rep("x", 3) \o <<"A", "R", "C", "H", "I", "V", "E", "D">>,
      Rep("x", 2) \o <<"a", "r", "c", "h", "I", "v", "e", "d">> \o Rep("x", 2),
      <<"a", "r", "c", "h", "i", "v", "e">> \o Rep("x", 4),
      archivedWord,
      archivedWord \o Rep("x", maxTextLength) }

Cards ==
    { PlainCard(t, l) : t \in CardTexts, l \in BOOLEAN }
    \cup { Card(Str11, TRUE, <<"A", "r", "c", "h", "i", "v", "e", "d">>, FALSE, 100, "block"),
           Card(Str11, TRUE, <<>>, TRUE, 100, "block"),
           Card(Str11, TRUE, <<>>, FALSE, 50, "block"),
           Card(Str11, TRUE, <<>>, FALSE, 100, "none"),
           Card(Str11, TRUE, <<"b", "o", "r", "d", "e", "r">>, FALSE, 100, "flex") }

CardSeqs == UNION { [1..n -> Cards] : n \in 0..MaxCards }

\* a document without a main region has no cards to enumerate
NoMainDoc == [main |-> FALSE, cards |-> <<>>]

CountDocs == { [main |-> TRUE, cards |-> cs] : cs \in CardSeqs } \cup {NoMainDoc}

----------------------------------------------------------------------------
(* The sidebar scan *)

\* A path is the sequence of its segments: "/dashboard/lists/abc" is
\* <<"dashboard", "lists", "abc">>, "/dashboard/lists/" ends with "".

\* path.split('/lists/')[1]: what follows the first "/lists/", NoListId
\* when the path holds no "/lists/"
ListIdOf(path) ==
    LET at == {i \in 1..(Len(path) - 1) : path[i] = "lists"}
    IN  IF at = {} THEN NoListId
        ELSE LET first == CHOOSE i \in at : \A j \in at : i <= j
             IN  SubSeq(path, first + 1, Len(path))

\* a listId that passes the test `listId && ...` of line 173
Truthy(listId) == listId # NoListId /\ listId # <<"">>

\* An item of the sidebar is [href, badge]: a link of the aside and the text
\* of the badge div of its enclosing li, NoBadge when there is none.
IsListLink(item) == ListIdOf(item.href) # NoListId

Discovered(item) ==
    /\ IsListLink(item)
    /\ Truthy(ListIdOf(item.href))
    /\ item.badge # NoBadge

ListInfo(its, i) ==
    [idx |-> i,
     listId |-> ListIdOf(its[i].href),
     currentCount |-> ParseCount(its[i].badge)]

RECURSIVE ScanFrom(_, _)
ScanFrom(its, i) ==
    IF i > Len(its) THEN <<>>
    ELSE (IF Discovered(its[i]) THEN <<ListInfo(its, i)>> ELSE <<>>)
         \o ScanFrom(its, i + 1)

findAllListLinks(asd, its) ==
    IF ~asd THEN <<>> ELSE ScanFrom(its, 1)

----------------------------------------------------------------------------
(* One run *)

\* the cooldown read as a number of seconds
CooldownActiveSeconds(t, last) == t - last < updateCooldown \div 1000

\* the cooldown check left out
CooldownActiveNever(t, last) == FALSE

\* line 106
CooldownActive(t, last) == t - last < updateCooldown

\* a test of the current list that never holds
IsCurrentListNever(listId, loc) == FALSE

\* line 207-209
IsCurrentList(listId, loc) == ListIdOf(loc) = listId

\* An unexpected exception of a call of updateAllListCounts: none, one raised
\* while the sidebar is scanned (line 120, inside the try of line 111), one
\* raised while the live page is counted (line 211, inside the try of line
\* 190)
Faults == {"none", "scan", "count"}

\* line 211, or an exception raised while the live page is counted
ResolveLocal(d, fault) ==
    IF fault = "count" THEN Thrown ELSE countVisibleBookmarks(d)

\* the test of line 194 without its comparison with the displayed count
ShouldWriteAnyCount(unarchivedCount, currentCount) ==
    /\ unarchivedCount # Thrown
    /\ unarchivedCount # Null

\* line 194; a thrown exception skips the test and goes to the catch of
\* line 200
ShouldWrite(unarchivedCount, currentCount) ==
    /\ unarchivedCount # Thrown
    /\ unarchivedCount # Null
    /\ unarchivedCount # currentCount

WrittenText(unarchivedCount, currentCount) ==
    IF ShouldWrite(unarchivedCount, currentCount)
    THEN ToString(unarchivedCount) ELSE NoWrite

\* The run as it stands when updateAllListCounts reaches the await of line
\* 134 and the microtasks queued so far have run: the current list is
\* resolved from the live page, a fetch is pending for every other list.
\* `at` is window.location as read at line 207, `gets` the number of GET
\* requests issued for each list (line 227).
NewRun(t, links, loc, d, fault) ==
    LET local(k) == IsCurrentList(links[k].listId, loc)
        res(k) == IF local(k) THEN ResolveLocal(d, fault) ELSE Undefined
    IN  [start |-> t,
         at    |-> loc,
         links |-> links,
         gets  |-> [k \in 1..Len(links) |-> IF local(k) THEN 0 ELSE 1],
         via   |-> [k \in 1..Len(links) |-> IF local(k) THEN "local" ELSE "fetch"],
         st    |-> [k \in 1..Len(links) |-> IF local(k) THEN "done" ELSE "fetching"],
         res   |-> [k \in 1..Len(links) |-> res(k)],
         wrote |-> [k \in 1..Len(links) |->
                       IF local(k) THEN WrittenText(res(k), links[k].currentCount)
                       ELSE NoWrite]]

\* a write that sets the text on every link of the sidebar, giving a badge
\* to those that have none
ApplyWritesAll(its, run) ==
    IF \E k \in 1..Len(run.links) : run.wrote[k] # NoWrite
    THEN LET k == CHOOSE k \in 1..Len(run.links) : run.wrote[k] # NoWrite
         IN  [i \in 1..Len(its) |-> [its[i] EXCEPT !.badge = run.wrote[k]]]
    ELSE its

\* line 195, for every list of the run resolved so far
ApplyWrites(its, run) ==
    [i \in 1..Len(its) |->
        IF \E k \in 1..Len(run.links) :
               run.links[k].idx = i /\ run.wrote[k] # NoWrite
        THEN LET k == CHOOSE k \in 1..Len(run.links) :
                          run.links[k].idx = i /\ run.wrote[k] # NoWrite
             IN  [its[i] EXCEPT !.badge = run.wrote[k]]
        ELSE its[i]]

\* a pending timer is known by the instant it is due at; the callbacks of
\* all the timers do the same, they call updateAllListCounts
Timer(kind, due) == [due |-> due]

\* The MutationObserver callback of lines 64-91 after a DOM mutation at time
\* t: `significant` says whether an added element is or holds an aside or a
\* main.  Gives the new currentUrl and the new set of timers.
ObserverCallback(loc, cur, tm, significant, t) ==
    [currentUrl |-> loc,
     timers |-> tm
        \cup (IF loc # cur THEN {Timer("url", t + observerDelay)} ELSE {})
        \cup (IF significant THEN {Timer("dom", t + observerDelay)} ELSE {})]

\* The log of a task: how the call of updateAllListCounts it made ended
\* ("none" when it made no call), whether the call scanned the sidebar, how
\* many fetches it issued and badges it wrote, the acknowledgement sent to
\* the sender of a runtime message ("none" when none was sent), and how the
\* fetch it continued ended ("none" when it continued no fetch).  `reply` is
\* the runtime message the task handles and its answer.
TaskLog(outcome, scanned, fetches, writes, reply, fetch) ==
    [outcome |-> outcome, scanned |-> scanned, fetches |-> fetches,
     writes |-> writes, msg |-> reply.action, ack |-> reply.status,
     fetch |-> fetch]

\* a runtime message with its request.action and the status handed to
\* sendResponse ("none" when sendResponse is not called)
Reply(action, status) == [action |-> action, status |-> status]

\* the task handles no runtime message
NoMessage == Reply("none", "none")

\* a task that neither calls updateAllListCounts nor answers a message
QuietTask == TaskLog("none", FALSE, 0, 0, NoMessage, "none")

Count(run, field, value) ==
    Cardinality({k \in 1..Len(run.links) : run[field][k] = value})

\* a listener that answers only when the call was not skipped
SkippedUnanswered(tm, ack) ==
    /\ task' = TaskLog("cooldown", FALSE, 0, 0, Reply(ack.action, "none"), "none")
    /\ timers' = tm
    /\ UNCHANGED <<lastUpdateTime, lastAbort, items, runs, currentUrl>>

\* a skipped call that resets the time of the last update
SkippedResets(tm, ack) ==
    /\ task' = TaskLog("cooldown", FALSE, 0, 0, ack, "none")
    /\ timers' = tm
    /\ lastUpdateTime' = 0
    /\ UNCHANGED <<lastAbort, items, runs, currentUrl>>

\* lines 106-109: the call is skipped
Skipped(tm, ack) ==
    /\ task' = TaskLog("cooldown", FALSE, 0, 0, ack, "none")
    /\ timers' = tm
    /\ UNCHANGED <<lastUpdateTime, lastAbort, items, runs, currentUrl>>

\* a cooldown armed before the readiness checks
NotReadyArmed(tm, outcome, scanned, ack) ==
    /\ task' = TaskLog(outcome, scanned, 0, 0, ack, "none")
    /\ timers' = tm
    /\ lastAbort' = now
    /\ lastUpdateTime' = now
    /\ UNCHANGED <<items, runs, currentUrl>>

\* lines 114-117 and 123-126: the page is not ready, the call returns
NotReady(tm, outcome, scanned, ack) ==
    /\ task' = TaskLog(outcome, scanned, 0, 0, ack, "none")
    /\ timers' = tm
    /\ lastAbort' = now
    /\ UNCHANGED <<lastUpdateTime, items, runs, currentUrl>>

\* a call without the try of line 111: the exception rejects the promise
\* returned by the call
Uncaught(tm, ack) ==
    /\ task' = TaskLog("rejected", FALSE, 0, 0, ack, "none")
    /\ timers' = tm
    /\ UNCHANGED <<lastUpdateTime, lastAbort, items, runs, currentUrl>>

\* the catch of lines 149-151: an exception raised before line 128 ends the
\* call, which returns normally
Caught(tm, ack) ==
    /\ task' = TaskLog("caught", FALSE, 0, 0, ack, "none")
    /\ timers' = tm
    /\ UNCHANGED <<lastUpdateTime, lastAbort, items, runs, currentUrl>>

\* a run that, when it starts, cancels the fetches of the runs in flight
StartedCancelling(tm, listLinks, fault, ack) ==
    LET run == NewRun(now, listLinks, location, doc, fault)
        cancelled(old) ==
            [old EXCEPT !.st = [k \in 1..Len(old.links) |-> "done"],
                        !.res = [k \in 1..Len(old.links) |->
                                    IF old.st[k] = "done" THEN old.res[k]
                                    ELSE Null]]
    IN  /\ lastUpdateTime' = now
        /\ runs' = Append([r \in 1..Len(runs) |-> cancelled(runs[r])], run)
        /\ items' = ApplyWrites(items, run)
        /\ timers' = tm
        /\ task' = TaskLog("started", TRUE, Count(run, "via", "fetch"),
                           Len(run.links) - Count(run, "wrote", NoWrite),
                           ack, "none")
        /\ UNCHANGED <<lastAbort, currentUrl>>

\* lines 128-134 and the microtasks that follow: the run starts
Started(tm, listLinks, fault, ack) ==
    LET run == NewRun(now, listLinks, location, doc, fault)
        nWrites == Len(run.links) - Count(run, "wrote", NoWrite)
        obs == IF nWrites > 0
               THEN ObserverCallback(location, currentUrl, tm, FALSE, now)
               ELSE [currentUrl |-> currentUrl, timers |-> tm]
    IN  /\ lastUpdateTime' = now
        /\ runs' = Append(runs, run)
        /\ items' = ApplyWrites(items, run)
        /\ currentUrl' = obs.currentUrl
        /\ timers' = obs.timers
        /\ task' = TaskLog("started", TRUE, Count(run, "via", "fetch"),
                           nWrites, ack, "none")
        /\ UNCHANGED lastAbort

\* updateAllListCounts, from its call to its first await (line 134) and the
\* microtasks that follow: tm is the set of timers left pending by the
\* caller, fault the unexpected exception of the call, ack the runtime
\* message the caller answers after the call.
updateAllListCounts(tm, fault, ack) ==
    LET listLinks == findAllListLinks(aside, items)
    IN  IF CooldownActive(now, lastUpdateTime) THEN Skipped(tm, ack)
        ELSE IF ~aside THEN NotReady(tm, "nosidebar", FALSE, ack)
        ELSE IF fault = "scan" THEN Caught(tm, ack)
        ELSE IF Len(listLinks) = 0 THEN NotReady(tm, "nolists", TRUE, ack)
        ELSE Started(tm, listLinks, fault, ack)

----------------------------------------------------------------------------
(* Inputs of the scheduler model *)

Path(id) == <<"dashboard", "lists", id>>

BookmarksPath == <<"dashboard", "bookmarks">>

Paths == {Path("abc"), BookmarksPath}

Item(href, badge) == [href |-> href, badge |-> badge]

\* two lists with a badge (one badge not a number, one with white space), a
\* link without a list id and a list link without a badge
ItemsTwoLists ==
    <<Item(Path(""), <<"7">>), Item(Path("abc"), <<"x">>),
      Item(Path("xyz"), <<" ", "1">>), Item(Path("new"), NoBadge)>>

ItemsNoList == <<Item(BookmarksPath, <<"3">>), Item(Path("new"), NoBadge)>>

SidebarContents == {ItemsTwoLists, ItemsNoList}

ValidCard == PlainCard(Str11, TRUE)

DimmedCard == Card(Str11, TRUE, <<>>, FALSE, 50, "block")

DocOfCards(cs) == [main |-> TRUE, cards |-> cs]

LiveDocs == {NoMainDoc, DocOfCards(<<ValidCard, DimmedCard>>)}

FetchDocs == {NoMainDoc, DocOfCards(<<ValidCard>>)}

----------------------------------------------------------------------------
(* The scheduler: initial state and steps *)

countVars == <<liveResult, docResult>>

\* one more external event, within the bound
ExternalEvent ==
    /\ events < MaxEvents
    /\ events' = events + 1

\* the constructor (lines 9-15): init() has scheduled the two startup timers
\* and installed the observer
Init ==
    /\ now = Epoch
    /\ lastUpdateTime = 0
    /\ lastAbort = 0
    /\ readyState \in {"loading", "interactive", "complete"}
    /\ timers = {Timer("startup", Epoch + startupDelayShort),
                 Timer("startup", Epoch + startupDelayLong)}
    /\ location \in Paths
    /\ currentUrl = location
    /\ aside \in BOOLEAN
    /\ items = IF aside THEN ItemsTwoLists ELSE <<>>
    /\ doc \in LiveDocs
    /\ runs = <<>>
    /\ task = QuietTask
    /\ events = 0
    /\ liveResult = Undefined
    /\ docResult = Undefined

FetchDeadline(run) == run.start + fetchTimeout

\* the instants at which a pending timer or fetch timeout falls due
Deadlines ==
    {t.due : t \in timers}
    \cup {FetchDeadline(runs[r]) : r \in {q \in 1..Len(runs) :
              \E k \in 1..Len(runs[q].links) : runs[q].st[k] = "fetching"}}

\* The instants the clock is observed at: the earliest deadline, the end of
\* the cooldown and the instant TickMs before it, and, when none of these
\* lies ahead, one idle step.  A deadline is never stepped over: the callback
\* due at an instant runs before the clock leaves it.
NextInstants ==
    LET ahead == {t \in Deadlines
                     \cup {lastUpdateTime + updateCooldown,
                           lastUpdateTime + updateCooldown - TickMs} : t > now}
    IN  IF ahead = {} THEN {now + IdleMs}
        ELSE {t \in ahead : \A d \in Deadlines : t <= d}

Tick ==
    \E t \in NextInstants :
        /\ \A d \in Deadlines : d > now
        /\ t <= Epoch + MaxTicks * TickMs
        /\ now' = t
        /\ task' = QuietTask
        /\ UNCHANGED <<lastUpdateTime, lastAbort, readyState, timers, currentUrl, location,
                       aside, items, doc, runs, events, countVars>>

\* a setTimeout callback of lines 38-41, 48, 56, 69 or 89.  The exception of
\* the scan is followed in the calls made for a runtime message only: the
\* catch of line 149 is the same whoever calls.
TimerFires ==
    \E t \in timers : \E fault \in Faults \ {"scan"} :
        /\ t.due <= now
        /\ updateAllListCounts(timers \ {t}, fault, NoMessage)
        /\ UNCHANGED <<now, readyState, location, aside, doc, events, countVars>>

\* lines 53-58
DOMContentLoaded ==
    /\ readyState = "loading"
    /\ ExternalEvent
    /\ readyState' = "interactive"
    /\ timers' = timers \cup {Timer("domready", now + loadDelay)}
    /\ task' = QuietTask
    /\ UNCHANGED <<now, lastUpdateTime, lastAbort, currentUrl, location, aside, items,
                   doc, runs, countVars>>

\* lines 45-50
WindowLoad ==
    /\ readyState = "interactive"
    /\ ExternalEvent
    /\ readyState' = "complete"
    /\ timers' = timers \cup {Timer("load", now + loadDelay)}
    /\ task' = QuietTask
    /\ UNCHANGED <<now, lastUpdateTime, lastAbort, currentUrl, location, aside, items,
                   doc, runs, countVars>>

\* the listener of lines 340-346
RuntimeMessage ==
    \E action \in {"refreshCounts", "ping"} : \E fault \in Faults :
        /\ ExternalEvent
        /\ IF action = "refreshCounts"
           THEN updateAllListCounts(timers, fault, Reply(action, "refreshed"))
           ELSE /\ task' = TaskLog("none", FALSE, 0, 0,
                                   Reply(action, "none"), "none")
                /\ UNCHANGED <<lastUpdateTime, lastAbort, items, runs,
                               currentUrl, timers>>
        /\ UNCHANGED <<now, readyState, location, aside, doc, countVars>>

----------------------------------------------------------------------------
(* The host page *)

\* a DOM mutation by the host page at this instant, seen by the observer
HostMutation(loc, significant) ==
    LET obs == ObserverCallback(loc, currentUrl, timers, significant, now)
    IN  /\ ExternalEvent
        /\ currentUrl' = obs.currentUrl
        /\ timers' = obs.timers

HostInsertsSidebar ==
    /\ ~aside
    /\ aside' = TRUE
    /\ items' \in SidebarContents \cup {<<>>}
    /\ HostMutation(location, TRUE)
    /\ task' = QuietTask
    /\ UNCHANGED <<now, lastUpdateTime, lastAbort, readyState, location, doc, runs, countVars>>

\* client-side navigation: the path changes and the main content is redrawn
HostNavigates ==
    \E p \in Paths \ {location} : \E d \in LiveDocs \ {NoMainDoc} :
        /\ location' = p
        /\ doc' = d
        /\ HostMutation(p, d.main /\ ~doc.main)
        /\ task' = QuietTask
        /\ UNCHANGED <<now, lastUpdateTime, lastAbort, readyState, aside, items, runs, countVars>>

----------------------------------------------------------------------------
(* Fetches of the runs in flight *)

Pending(r, k, status) ==
    /\ r \in 1..Len(runs)
    /\ k \in 1..Len(runs[r].links)
    /\ runs[r].st[k] = status

\* a failure of one list that ends the resolution of the others
SettleListFailFast(r, k, result, how) ==
    LET info == runs[r].links[k]
        text == WrittenText(result, info.currentCount)
        failed == result = Null
    IN  /\ runs' = [runs EXCEPT
                       ![r].st = [j \in 1..Len(runs[r].links) |->
                                     IF j = k \/ failed THEN "done" ELSE @[j]],
                       ![r].res = [j \in 1..Len(runs[r].links) |->
                                     IF j = k THEN result
                                     ELSE IF failed /\ runs[r].st[j] # "done"
                                          THEN Null ELSE @[j]],
                       ![r].wrote[k] = text]
        /\ items' = IF text # NoWrite
                    THEN [items EXCEPT ![info.idx].badge = text]
                    ELSE items
        /\ task' = TaskLog("none", FALSE, 0, IF text # NoWrite THEN 1 ELSE 0,
                           NoMessage, how)
        /\ UNCHANGED <<now, lastUpdateTime, lastAbort, readyState, location,
                       aside, doc, events, countVars, currentUrl, timers>>

\* a write-back that waits until every other list of the run has settled
\* (and is dropped when one has not)
SettleListDeferred(r, k, result, how) ==
    LET info == runs[r].links[k]
        last == \A j \in 1..Len(runs[r].links) : j # k => runs[r].st[j] = "done"
        text == IF last THEN WrittenText(result, info.currentCount) ELSE NoWrite
    IN  /\ runs' = [runs EXCEPT ![r].st[k] = "done",
                                ![r].res[k] = result,
                                ![r].wrote[k] = text]
        /\ items' = IF text # NoWrite
                    THEN [items EXCEPT ![info.idx].badge = text]
                    ELSE items
        /\ task' = TaskLog("none", FALSE, 0, IF text # NoWrite THEN 1 ELSE 0,
                           NoMessage, how)
        /\ UNCHANGED <<now, lastUpdateTime, lastAbort, readyState, location,
                       aside, doc, events, countVars, currentUrl, timers>>

\* The rest of updateListCount (lines 194-199) once list k of run r has
\* resolved to `result`, and the observer callback its write causes; `how`
\* says how the fetch ended.
SettleList(r, k, result, how) ==
    LET info == runs[r].links[k]
        text == WrittenText(result, info.currentCount)
        obs == IF text # NoWrite
               THEN ObserverCallback(location, currentUrl, timers, FALSE, now)
               ELSE [currentUrl |-> currentUrl, timers |-> timers]
    IN  /\ runs' = [runs EXCEPT ![r].st[k] = "done",
                                ![r].res[k] = result,
                                ![r].wrote[k] = text]
        /\ items' = IF text # NoWrite
                    THEN [items EXCEPT ![info.idx].badge = text]
                    ELSE items
        /\ currentUrl' = obs.currentUrl
        /\ timers' = obs.timers
        /\ task' = TaskLog("none", FALSE, 0, IF text # NoWrite THEN 1 ELSE 0,
                           NoMessage, how)
        /\ UNCHANGED <<now, lastUpdateTime, lastAbort, readyState, location,
                       aside, doc, events, countVars>>

\* a fallback that guesses a count
FetchFallbackGuess == countBookmarksInDocument(NoMainDoc)

\* lines 258-259: "return null to keep current count"; also line 240
FetchFallback == Null

\* line 227 resolves with a success status, line 236 clears the timeout and
\* the body is awaited (line 243)
FetchResponds ==
    \E r \in 1..Len(runs) : \E k \in 1..Len(runs[r].links) :
        /\ Pending(r, k, "fetching")
        /\ runs' = [runs EXCEPT ![r].st[k] = "reading"]
        /\ task' = TaskLog("none", FALSE, 0, 0, NoMessage, "headers")
        /\ UNCHANGED <<now, lastUpdateTime, lastAbort, readyState, timers,
                       currentUrl, location, aside, items, doc, events,
                       countVars>>

\* line 227 resolves with a status that is not ok: lines 238-241
FetchRefused ==
    \E r \in 1..Len(runs) : \E k \in 1..Len(runs[r].links) :
        /\ Pending(r, k, "fetching")
        /\ SettleList(r, k, FetchFallback, "status")

\* fetch rejects with a network error: the catch of lines 252-260
FetchFails ==
    \E r \in 1..Len(runs) : \E k \in 1..Len(runs[r].links) :
        /\ Pending(r, k, "fetching")
        /\ SettleList(r, k, FetchFallback, "error")

\* the timer of line 224 aborts the fetch: AbortError, lines 253-259
FetchTimesOut ==
    \E r \in 1..Len(runs) : \E k \in 1..Len(runs[r].links) :
        /\ Pending(r, k, "fetching")
        /\ FetchDeadline(runs[r]) <= now
        /\ SettleList(r, k, FetchFallback, "timeout")

\* response.text() resolves: lines 243-251
BodyArrives ==
    \E r \in 1..Len(runs) : \E k \in 1..Len(runs[r].links) : \E d \in FetchDocs :
        /\ Pending(r, k, "reading")
        /\ SettleList(r, k, countBookmarksInDocument(d), "counted")

\* response.text() rejects: the catch of lines 252-260
BodyFails ==
    \E r \in 1..Len(runs) : \E k \in 1..Len(runs[r].links) :
        /\ Pending(r, k, "reading")
        /\ SettleList(r, k, FetchFallback, "body")

Next ==
    \/ Tick
    \/ TimerFires
    \/ DOMContentLoaded
    \/ WindowLoad
    \/ RuntimeMessage
    \/ HostInsertsSidebar
    \/ HostNavigates
    \/ FetchResponds
    \/ FetchRefused
    \/ FetchFails
    \/ FetchTimesOut
    \/ BodyArrives
    \/ BodyFails

Spec == Init /\ [][Next]_vars

\* The scheduler with the fairness its timers have: the clock goes on, a
\* setTimeout callback that is due runs, and the abort timer of line 224
\* that is due and was not cleared aborts its fetch.  Nothing is assumed of
\* the network and of the host page: a response, a body, a message or a
\* mutation may never come.
\* a setTimeout callback is due: TimerFires is enabled exactly then, since
\* updateAllListCounts takes a step in every state and the step removes the
\* timer
TimerDue == \E t \in timers : t.due <= now

\* weak fairness of TimerFires, WF_vars(TimerFires), written out with its
\* enabling condition
TimerFairness == []<>(~TimerDue) \/ []<><<TimerFires>>_vars

SpecLive ==
    /\ Spec
    /\ WF_vars(Tick)
    /\ TimerFairness
    /\ WF_vars(FetchTimesOut)

----------------------------------------------------------------------------
(* The page counters on their own: a document is drawn and counted *)

InitCount ==
    /\ now = Epoch
    /\ lastUpdateTime = 0
    /\ lastAbort = 0
    /\ readyState = "complete"
    /\ timers = {}
    /\ location = BookmarksPath
    /\ currentUrl = location
    /\ aside = FALSE
    /\ items = <<>>
    /\ doc \in CountDocs
    /\ runs = <<>>
    /\ task = QuietTask
    /\ events = 0
    /\ liveResult = Undefined
    /\ docResult = Undefined

\* window.karakeepExtension.test(), line 353
CountLive ==
    /\ liveResult' = countVisibleBookmarks(doc)
    /\ UNCHANGED <<now, lastUpdateTime, lastAbort, readyState, timers, currentUrl, location,
                   aside, items, doc, runs, task, events, docResult>>

\* line 248, on the document parsed from a response
CountDetached ==
    /\ docResult' = countBookmarksInDocument(doc)
    /\ UNCHANGED <<now, lastUpdateTime, lastAbort, readyState, timers, currentUrl, location,
                   aside, items, doc, runs, task, events, liveResult>>

NextCount == CountLive \/ CountDetached

SpecCount == InitCount /\ [][NextCount]_vars

----------------------------------------------------------------------------
(* Claims about the page counters (checked under SpecCount) *)

Counted(result) == result # Undefined /\ result # Null

Without(d, Drop(_)) ==
    [d EXCEPT !.cards = SelectSeq(d.cards, LAMBDA c : ~Drop(c))]

\* C7, as stated: both counters return 0 for a document without a main
\* region; a missing main region is never reported as unknown.
C7_MissingMainIsZero ==
    ~doc.main =>
        /\ docResult # Undefined => docResult = 0
        /\ liveResult # Undefined => liveResult = 0

\* C7, amended: for a document without a main region the detached counter
\* returns 0 and the live counter returns null (unknown).
C7_MissingMainZeroDetachedNullLive ==
    ~doc.main =>
        /\ docResult # Undefined => docResult = 0
        /\ liveResult # Undefined => liveResult = Null

C7_Witness ==
    /\ ~doc.main
    /\ docResult = 0
    /\ liveResult = Null

UpperArchived == <<"A", "R", "C", "H", "I", "V", "E", "D">>

\* the text holds "archived" in some mix of upper and lower case letters
HasArchivedText(card) ==
    \E i \in 0..(Len(card.text) - 8) :
        \A j \in 1..8 : card.text[i + j] \in {archivedWord[j], UpperArchived[j]}

\* C8: a card whose text contains "archived" in any letter case adds nothing
\* to either count: each count equals the count of the document without
\* such cards, and no such card is among the counted ones.
C8_ArchivedTextNeverCounted ==
    LET rest == Without(doc, HasArchivedText)
    IN  /\ docResult # Undefined =>
              /\ docResult = countBookmarksInDocument(rest)
              /\ docResult <= Len(rest.cards)
        /\ Counted(liveResult) =>
              /\ liveResult = countVisibleBookmarks(rest)
              /\ liveResult <= Len(rest.cards)

C8_Witness ==
    /\ doc.main
    /\ \E i \in 1..Len(doc.cards) :
           /\ HasArchivedText(doc.cards[i])
           /\ doc.cards[i].link
           /\ Len(doc.cards[i].text) > minTextLength
           /\ Len(doc.cards[i].text) < maxTextLength
           /\ doc.cards[i].text # ToLowerCase(doc.cards[i].text)
    /\ docResult = 1
    /\ liveResult = 1

OutOfRange(card) ==
    \/ Len(Trim(card.text)) <= 10
    \/ Len(Trim(card.text)) >= 200

\* C9: a card whose trimmed text has at most 10 or at least 200 characters
\* adds nothing to either count, also when it has an outbound link and no
\* archive marker.
C9_LengthLimitsNeverCounted ==
    LET rest == Without(doc, OutOfRange)
    IN  /\ docResult # Undefined =>
              /\ docResult = countBookmarksInDocument(rest)
              /\ docResult <= Len(rest.cards)
        /\ Counted(liveResult) =>
              /\ liveResult = countVisibleBookmarks(rest)
              /\ liveResult <= Len(rest.cards)

CleanLinked(card) ==
    /\ card.link
    /\ ~HasArchivedText(card)
    /\ card.cls = <<>>
    /\ ~card.attr
    /\ card.opacity = 100
    /\ card.display = "block"

C9_Witness ==
    /\ doc.main
    /\ Len(doc.cards) = 2
    /\ CleanLinked(doc.cards[1]) /\ Len(Trim(doc.cards[1].text)) = 10
    /\ CleanLinked(doc.cards[2]) /\ Len(Trim(doc.cards[2].text)) = 200
    /\ docResult = 0
    /\ liveResult = 0

----------------------------------------------------------------------------
(* Claims about the scheduler (checked under Spec) *)

Lists(run) == 1..Len(run.links)

InFlight(run) == \E k \in Lists(run) : run.st[k] # "done"

\* the badge text of the list k of a run, in the sidebar `its`
BadgeOf(its, run, k) == its[run.links[k].idx].badge

\* list k of run r settles in this step (with the run's start, for the
\* list resolved from the live page)
Settles(r, k) ==
    /\ runs'[r].st[k] = "done"
    /\ r > Len(runs) \/ runs[r].st[k] # "done"

\* C1: any two runs that record lastUpdateTime start at least updateCooldown
\* apart, and lastUpdateTime is the start of the latest of them.
C1_RunsCooldownApart ==
    /\ \A r1, r2 \in 1..Len(runs) :
           r1 < r2 => runs[r2].start - runs[r1].start >= updateCooldown
    /\ runs # <<>> => lastUpdateTime = runs[Len(runs)].start

C1_Witness ==
    /\ Len(runs) = 2
    /\ runs[2].start - runs[1].start = updateCooldown

\* C2: when a list of a run resolves to a known count, the badge shows that
\* count right after if it differs from the count displayed at scan time,
\* and is left as it was otherwise.
C2_KnownCountReconciled ==
    [][\A r \in 1..Len(runs') : \A k \in Lists(runs'[r]) :
          (Settles(r, k) /\ runs'[r].res[k] >= 0) =>
              IF runs'[r].res[k] # runs'[r].links[k].currentCount
              THEN BadgeOf(items', runs'[r], k) = ToString(runs'[r].res[k])
              ELSE BadgeOf(items', runs'[r], k) = BadgeOf(items, runs'[r], k)]_vars

C2_Witness ==
    \E r \in 1..Len(runs) : \E k1, k2 \in Lists(runs[r]) :
        /\ ~InFlight(runs[r])
        /\ runs[r].res[k1] >= 0
        /\ runs[r].res[k1] # runs[r].links[k1].currentCount
        /\ BadgeOf(items, runs[r], k1) = ToString(runs[r].res[k1])
        /\ runs[r].res[k2] = runs[r].links[k2].currentCount
        /\ BadgeOf(items, runs[r], k2) = <<" ", "1">>

FailedFetch == {"timeout", "error", "status"}

\* C3: a fetch that times out, fails or is refused resolves its list to null
\* and writes nothing: the sidebar after the step is the sidebar before it.
C3_FailedFetchWritesNothing ==
    [][task'.fetch \in FailedFetch =>
          /\ items' = items
          /\ task'.writes = 0
          /\ \E r \in 1..Len(runs) : \E k \in Lists(runs[r]) :
                 /\ Settles(r, k)
                 /\ runs'[r].res[k] = Null
                 /\ runs'[r].wrote[k] = NoWrite]_vars

C3_Witness ==
    /\ task.fetch = "timeout"
    /\ \E r \in 1..Len(runs) : \E k \in Lists(runs[r]) :
           /\ now = runs[r].start + fetchTimeout
           /\ runs[r].via[k] = "fetch"
           /\ runs[r].res[k] = Null
           /\ runs[r].links[k].currentCount = 1
           /\ BadgeOf(items, runs[r], k) = <<" ", "1">>

\* C4: a call of updateAllListCounts less than updateCooldown after a run
\* recorded lastUpdateTime scans nothing, fetches nothing, writes nothing
\* and leaves lastUpdateTime as it was.
C4_CallInCooldownDoesNothing ==
    [][(/\ task'.outcome # "none"
        /\ runs # <<>>
        /\ now - lastUpdateTime < updateCooldown) =>
          /\ task'.outcome = "cooldown"
          /\ ~task'.scanned
          /\ task'.fetches = 0
          /\ task'.writes = 0
          /\ items' = items
          /\ runs' = runs
          /\ lastUpdateTime' = lastUpdateTime]_vars

C4_Witness ==
    /\ task.outcome = "cooldown"
    /\ Len(runs) = 1
    /\ now - lastUpdateTime = 2000

\* C5, as stated: at most one run is in progress at any time.
C5_RunsNeverOverlap ==
    Cardinality({r \in 1..Len(runs) : InFlight(runs[r])}) <= 1

\* C6: a list of a run that fails (its fetch fails, or counting raises)
\* leaves the other lists of the run alone: their resolutions stay as they
\* are, and one that resolves to a known count different from the displayed
\* one still gets its badge written.
C6_FailureIsPerList ==
    [][\A r \in 1..Len(runs') : \A k \in Lists(runs'[r]) :
          /\ (Settles(r, k) /\ runs'[r].res[k] < 0 /\ r <= Len(runs)) =>
                \A j \in Lists(runs[r]) \ {k} :
                    /\ runs'[r].st[j] = runs[r].st[j]
                    /\ runs'[r].res[j] = runs[r].res[j]
                    /\ runs'[r].wrote[j] = runs[r].wrote[j]
          /\ (/\ Settles(r, k)
              /\ \E j \in Lists(runs'[r]) \ {k} : runs'[r].res[j] \in {Null, Thrown}
              /\ runs'[r].res[k] >= 0
              /\ runs'[r].res[k] # runs'[r].links[k].currentCount) =>
                BadgeOf(items', runs'[r], k) = ToString(runs'[r].res[k])]_vars

C6_Witness ==
    \E r \in 1..Len(runs) : \E k1, k2 \in Lists(runs[r]) :
        /\ ~InFlight(runs[r])
        /\ runs[r].res[k1] = Thrown
        /\ runs[r].res[k2] >= 0
        /\ runs[r].wrote[k2] = ToString(runs[r].res[k2])
        /\ BadgeOf(items, runs[r], k2) = ToString(runs[r].res[k2])

NoListDiscovered == \A i \in 1..Len(items) : ~Discovered(items[i])

\* C10: a call that passes the cooldown check and finds no sidebar, or no
\* list in it, issues no fetch, writes no badge and leaves lastUpdateTime as
\* it was, so that the cooldown check still passes right after it.
C10_NotReadyLeavesNoTrace ==
    [][(/\ task'.outcome \notin {"none", "cooldown", "caught"}
        /\ ~aside \/ NoListDiscovered) =>
          /\ task'.outcome \in {"nosidebar", "nolists"}
          /\ task'.fetches = 0
          /\ task'.writes = 0
          /\ items' = items
          /\ runs' = runs
          /\ lastUpdateTime' = lastUpdateTime
          /\ now' - lastUpdateTime' >= updateCooldown]_vars

\* a run has started less than updateCooldown after a call returned as not
\* ready
C10_Witness ==
    /\ task.outcome = "started"
    /\ lastAbort > 0
    /\ now > lastAbort
    /\ now - lastAbort < updateCooldown

\* the abort timer of the fetches of the run falls due within the time the
\* model follows
TimeoutInHorizon(run) == FetchDeadline(run) <= Epoch + MaxTicks * TickMs

\* C11, as stated: every run that passes the readiness check completes: time
\* and again every list of every run (whose fetch timeout lies within the
\* time followed) has left its resolution, none stays pending forever.
C11_EveryRunCompletes ==
    []<>(\A r \in 1..Len(runs) :
            TimeoutInHorizon(runs[r]) => ~InFlight(runs[r]))

\* C12: in every run, a list whose id is the list id of the path read at the
\* start of the run has no request and is resolved from the live page right
\* away; every other list has exactly one GET, while its fetch is pending
\* and after it has ended, however it ended.
C12_OneGetPerOtherList ==
    /\ \A r \in 1..Len(runs) : \A k \in Lists(runs[r]) :
           IF runs[r].links[k].listId = ListIdOf(runs[r].at)
           THEN /\ runs[r].gets[k] = 0
                /\ runs[r].via[k] = "local"
                /\ runs[r].st[k] = "done"
           ELSE /\ runs[r].gets[k] = 1
                /\ runs[r].via[k] = "fetch"
    /\ task.outcome = "started" =>
           LET run == runs[Len(runs)]
           IN  /\ run.at = location
               /\ task.fetches =
                      Cardinality({k \in Lists(run) :
                                      run.links[k].listId # ListIdOf(location)})
               /\ \A k \in Lists(run) :
                      run.links[k].listId = ListIdOf(location) =>
                          run.res[k] \in {countVisibleBookmarks(doc), Thrown}

C12_Witness ==
    \E r \in 1..Len(runs) : \E k1, k2 \in Lists(runs[r]) :
        /\ ~InFlight(runs[r])
        /\ runs[r].links[k1].listId = ListIdOf(runs[r].at)
        /\ runs[r].gets[k1] = 0
        /\ runs[r].res[k1] >= 0
        /\ runs[r].gets[k2] = 1
        /\ runs[r].res[k2] = Null

\* C13: a call of updateAllListCounts made while runs are in flight leaves
\* them as they are, with their fetches pending, and is skipped or not by
\* the cooldown alone; a list of an earlier run that resolves after a later
\* run has started still gets its badge written.
C13_TriggerLeavesRunInFlight ==
    [][/\ (task'.outcome # "none" /\ \E r \in 1..Len(runs) : InFlight(runs[r])) =>
              /\ \A r \in 1..Len(runs) : runs'[r] = runs[r]
              /\ (task'.outcome = "cooldown") <=>
                     (now - lastUpdateTime < updateCooldown)
              /\ (/\ now - lastUpdateTime >= updateCooldown
                  /\ Len(findAllListLinks(aside, items)) > 0) =>
                     \/ task'.outcome = "started" /\ Len(runs') = Len(runs) + 1
                     \/ task'.outcome = "caught"
       /\ \A r \in 1..Len(runs) : \A k \in Lists(runs[r]) :
              (/\ r < Len(runs)
               /\ Settles(r, k)
               /\ ShouldWrite(runs'[r].res[k], runs[r].links[k].currentCount)) =>
                  BadgeOf(items', runs[r], k) = ToString(runs'[r].res[k])]_vars

\* a list of the first run is written while the second run, started in the
\* meantime, has all its fetches pending
C13_Witness ==
    /\ Len(runs) = 2
    /\ ~InFlight(runs[1])
    /\ \A k \in Lists(runs[2]) : runs[2].via[k] = "fetch" => runs[2].st[k] = "fetching"
    /\ \E k \in Lists(runs[2]) : runs[2].via[k] = "fetch"
    /\ task.fetch = "counted"
    /\ task.writes = 1

\* C14, as stated: a run writes no badge until every resolution of the run
\* has settled.
C14_WritesAfterAllSettle ==
    \A r \in 1..Len(runs) :
        (\E k \in Lists(runs[r]) : runs[r].wrote[k] # NoWrite) =>
            ~InFlight(runs[r])

\* C14, amended: a run writes the badge of a list when the resolution of
\* that list settles, whether or not the other resolutions of the run have
\* settled: a settled list whose count is known and differs from the count
\* displayed at scan time has been written, a pending list has not.
C14_WriteAtOwnResolution ==
    \A r \in 1..Len(runs) : \A k \in Lists(runs[r]) :
        IF runs[r].st[k] = "done"
        THEN runs[r].wrote[k] =
                 WrittenText(runs[r].res[k], runs[r].links[k].currentCount)
        ELSE runs[r].wrote[k] = NoWrite

\* the badge of a fetched list has just been written while the fetch of
\* another list of the run is pending
C14_Witness ==
    /\ Len(runs) = 1
    /\ task.fetch = "counted"
    /\ task.writes = 1
    /\ \E k1, k2 \in Lists(runs[1]) :
           /\ runs[1].via[k1] = "fetch"
           /\ runs[1].wrote[k1] # NoWrite
           /\ BadgeOf(items, runs[1], k1) = runs[1].wrote[k1]
           /\ runs[1].st[k2] = "fetching"

\* the step is one of the extension: a call of updateAllListCounts or the
\* continuation of a fetch
ExtensionStep == task'.outcome # "none" \/ task'.fetch # "none"

\* C15: a step of the extension leaves the page as it is but for the text of
\* badges: the sidebar element, the location and the main content are
\* unchanged, the sidebar keeps its links and their targets, no link gains
\* or loses a badge, and a badge whose text changes is the badge of a list
\* that a run discovered and that settles in this step, the new text being
\* the count it resolved to.
C15_OnlyScannedBadgesWritten ==
    [][ExtensionStep =>
          /\ aside' = aside
          /\ doc' = doc
          /\ location' = location
          /\ Len(items') = Len(items)
          /\ \A i \in 1..Len(items) :
                 /\ items'[i].href = items[i].href
                 /\ (items'[i].badge = NoBadge) <=> (items[i].badge = NoBadge)
                 /\ items'[i].badge # items[i].badge =>
                        /\ Discovered(items[i])
                        /\ \E r \in 1..Len(runs') : \E k \in Lists(runs'[r]) :
                               /\ runs'[r].links[k].idx = i
                               /\ runs'[r].links[k].listId = ListIdOf(items[i].href)
                               /\ Settles(r, k)
                               /\ runs'[r].res[k] >= 0
                               /\ items'[i].badge = ToString(runs'[r].res[k])]_vars

\* a run has just written the badge of the current list; the link without a
\* list id and the list link without a badge are as the host page made them
C15_Witness ==
    /\ task.outcome = "started"
    /\ task.writes = 1
    /\ Len(items) = Len(ItemsTwoLists)
    /\ items # ItemsTwoLists
    /\ items[1] = ItemsTwoLists[1]
    /\ items[4] = ItemsTwoLists[4]
    /\ items[4].badge = NoBadge

CallOutcomes == {"cooldown", "nosidebar", "nolists", "caught", "started"}

\* C16: the task that handles a runtime message with action 'refreshCounts'
\* calls updateAllListCounts and answers {status: 'refreshed'}, however the
\* call ends; inside the cooldown the call is skipped, with no scan, fetch
\* or write.  A message with another action is followed by no call and no
\* answer, and no answer is sent without a message.
C16_RefreshAlwaysAcknowledged ==
    /\ task.msg = "refreshCounts" =>
           /\ task.ack = "refreshed"
           /\ task.outcome \in CallOutcomes
           /\ (lastUpdateTime # now /\ now - lastUpdateTime < updateCooldown) =>
                  task.outcome = "cooldown"
           /\ task.outcome = "cooldown" =>
                  /\ ~task.scanned
                  /\ task.fetches = 0
                  /\ task.writes = 0
                  /\ now - lastUpdateTime < updateCooldown
    /\ task.msg \notin {"none", "refreshCounts"} =>
           /\ task.ack = "none"
           /\ task.outcome = "none"
           /\ task.fetches = 0
           /\ task.writes = 0
    /\ task.msg = "none" => task.ack = "none"

\* a refresh message inside the cooldown of a run has been answered
C16_Witness ==
    /\ task.msg = "refreshCounts"
    /\ task.ack = "refreshed"
    /\ task.outcome = "cooldown"
    /\ runs # <<>>
    /\ now - lastUpdateTime < updateCooldown

\* the card passes the test of line 277 / 313 and is rendered opaque
Opaque(card) == card.opacity = 100 /\ card.display # "none"

AllCandidatesOpaque(d) ==
    \A i \in 1..Len(d.cards) : IsCandidate(d.cards[i]) => Opaque(d.cards[i])

\* C17: on a document with a main region the live count is at most the
\* detached count of the same cards, and the two are equal when every
\* candidate card has opacity 1 and a display other than 'none'.
C17_LiveAtMostDetached ==
    (doc.main /\ docResult # Undefined /\ liveResult # Undefined) =>
        /\ liveResult >= 0
        /\ liveResult <= docResult
        /\ AllCandidatesOpaque(doc) => liveResult = docResult

\* both counters have counted the same two cards, rendered opaque
C17_Witness ==
    /\ doc.main
    /\ Len(doc.cards) = 2
    /\ AllCandidatesOpaque(doc)
    /\ doc.cards[1].display = "flex"
    /\ docResult = 2
    /\ liveResult = 2

\* C18: a call of updateAllListCounts in which an exception is raised
\* returns normally (its promise is not rejected) and the acknowledgement of
\* a refresh message is sent all the same.  An exception raised by the scan
\* leaves the page, the runs and lastUpdateTime as they were; one raised
\* while a list is counted leaves the badge of that list as it was and the
\* other lists of the run go on.  Every badge the call changes holds the
\* whole text of a resolved count.
C18_ExceptionStaysInRun ==
    [][task'.outcome # "none" =>
          /\ task'.outcome \in CallOutcomes
          /\ task'.msg = "refreshCounts" => task'.ack = "refreshed"
          /\ task'.outcome = "caught" =>
                 /\ items' = items
                 /\ runs' = runs
                 /\ lastUpdateTime' = lastUpdateTime
          /\ task'.outcome = "started" =>
                 LET run == runs'[Len(runs')]
                 IN  \A k \in Lists(run) :
                         run.res[k] = Thrown =>
                             /\ run.wrote[k] = NoWrite
                             /\ BadgeOf(items', run, k) = BadgeOf(items, run, k)
                             /\ \A j \in Lists(run) \ {k} :
                                    run.st[j] = "fetching" /\ run.gets[j] = 1
          /\ \A i \in 1..Len(items) :
                 items'[i] # items[i] =>
                     \E r \in 1..Len(runs') : \E k \in Lists(runs'[r]) :
                         /\ runs'[r].links[k].idx = i
                         /\ runs'[r].res[k] >= 0
                         /\ items'[i].badge = ToString(runs'[r].res[k])]_vars

\* an exception of the scan has been caught in a call made for a refresh
\* message, after a run that wrote a badge: the badge is as the run left it
C18_Witness ==
    /\ task.outcome = "caught"
    /\ task.ack = "refreshed"
    /\ Len(runs) = 1
    /\ \E k \in Lists(runs[1]) :
           /\ runs[1].wrote[k] # NoWrite
           /\ BadgeOf(items, runs[1], k) = runs[1].wrote[k]

AllRunsComplete == \A r \in 1..Len(runs) : ~InFlight(runs[r])

\* the runs that resolved the list of the sidebar link i to a known count
ResolvedBy(i) ==
    {r \in 1..Len(runs) :
        \E k \in Lists(runs[r]) :
            runs[r].links[k].idx = i /\ runs[r].res[k] >= 0}

\* the count the run r resolved the list of the sidebar link i to
ResolvedCount(r, i) ==
    LET k == CHOOSE k \in Lists(runs[r]) : runs[r].links[k].idx = i
    IN  runs[r].res[k]

\* C19, as stated: once all runs have completed, the badge of a list shows
\* the known count resolved by the latest-started run that resolved the
\* list.
C19_LatestRunPrevails ==
    AllRunsComplete =>
        \A i \in 1..Len(items) :
            ResolvedBy(i) # {} =>
                LET latest == CHOOSE r \in ResolvedBy(i) :
                                  \A q \in ResolvedBy(i) : q <= r
                IN  ParseCount(items[i].badge) = ResolvedCount(latest, i)

\* C20: lastUpdateTime never decreases; it changes only in a call of
\* updateAllListCounts that passed the cooldown check, found the sidebar and
\* at least one list in it, and it becomes the time read by that call, at
\* which the run starts.  It is 0 or the start of a run at all times.
C20_LastUpdateTimeOnlyByRuns ==
    [][/\ lastUpdateTime' >= lastUpdateTime
       /\ lastUpdateTime' # lastUpdateTime =>
              /\ task'.outcome = "started"
              /\ now - lastUpdateTime >= updateCooldown
              /\ aside
              /\ Len(findAllListLinks(aside, items)) > 0
              /\ lastUpdateTime' = now
              /\ Len(runs') = Len(runs) + 1
              /\ runs'[Len(runs')].start = now
       /\ \/ lastUpdateTime' = 0 /\ runs' = <<>>
          \/ \E r \in 1..Len(runs') : runs'[r].start = lastUpdateTime']_vars

\* a second run has replaced the time recorded by the first
C20_Witness ==
    /\ task.outcome = "started"
    /\ Len(runs) = 2
    /\ lastUpdateTime = runs[2].start
    /\ lastUpdateTime > runs[1].start
    /\ now = lastUpdateTime

====
